---- MODULE Spec2Model ----
(***************************************************************************)
(* Model of timeout.Sparkle (src/timeout/timeout.go): one request handled  *)
(* by the timeout middleware.  Two execution contexts exist: the adapter   *)
(* goroutine, which runs lines 30-63 and the wrapped handler synchronously *)
(* inside c.Next(), and the goroutine that context.AfterFunc starts for    *)
(* the registered callback once the derived context is done.               *)
(*                                                                         *)
(* Library semantics used (Go standard library):                           *)
(*  - context.WithTimeout arms a timer; when it fires the context is done  *)
(*    with DeadlineExceeded; cancel() makes the context done with Canceled *)
(*    and stops the timer; cancel() on a done context is a no-op.          *)
(*  - context.AfterFunc(ctx, f) runs f in its own goroutine after ctx is   *)
(*    done, whatever made it done (deadline or cancel); the stop function  *)
(*    it returns is discarded at line 41.                                  *)
(*  - sync.Once.Do runs its argument on the first call only.               *)
(*  - ResponseController.SetWriteDeadline fails iff the writer does not    *)
(*    support write deadlines; its result does not depend on whether the   *)
(*    header has been written.                                             *)
(***************************************************************************)
EXTENDS Integers, Sequences, FiniteSets, TLC

\* ---- bounds ----
MaxTime == 3
MaxDuration == 2
MaxRefire == 2
MaxNegative == 1

\* ---- program constants ----
Code == 408

Message == "Request timeout"

Durations == 1..MaxDuration

\* cfg.Duration is a time.Duration set by the caller: it may be zero or negative
BoundaryDurations == (0 - MaxNegative)..MaxDuration

NoErr == "nil"

HandlerErrors == {"nil", "HandlerError"}

WriteErrors == {"nil", "TimeoutWriteError"}

VARIABLES
    now,          \* clock, in ticks since request entry
    duration,     \* cfg.Duration
    deadlineOK,   \* does c.Writer support SetWriteDeadline
    pc,           \* adapter goroutine position
    timer,        \* timer owned by the derived context
    ctxErr,       \* ctx.Err() of the derived context
    reqCtx,       \* context installed in c.Request
    cb,           \* AfterFunc callback goroutine position
    onceDone,     \* sync.Once: Do has been entered
    timeoutErr,   \* shared variable, line 38
    hpc,          \* wrapped handler position inside c.Next()
    herr,         \* err, line 53
    sink,         \* response starts received by c.Writer, in order
    wdeadline,    \* the probe has set the write deadline to "now"
    aborted,      \* c.Abort() was called
    result,       \* value returned by the adapter
    retTime,      \* history: clock when c.Next() returned, -1 before
    ctxErrAtRet,  \* history: ctx.Err() when c.Next() returned
    wonAtRet,     \* history: once had been entered when c.Next() returned
    lateFire,     \* history: callback goroutine started after c.Next() returned
    entries,      \* history: number of times the body of once.Do was entered
    probed,       \* history: what isHeaderWritten reported inside the guard
    writeRes,     \* history: what c.String returned at line 46
    parentErr,    \* Err() of the request's ambient context, the parent of ctx
    endedByParent, \* history: the parent's cancellation ended ctx during c.Next()
    refires,      \* harness: extra invocations of the callback closure so far
    other         \* a second request in flight in the same middleware instance

vars == <<now, duration, deadlineOK, pc, timer, ctxErr, reqCtx, cb, onceDone,
          timeoutErr, hpc, herr, sink, wdeadline, aborted, result,
          retTime, ctxErrAtRet, wonAtRet, lateFire, entries, probed, writeRes,
          parentErr, endedByParent, refires, other>>

\* lines 30-38: what one call of the middleware function owns
own == <<pc, timer, ctxErr, reqCtx, cb, onceDone, timeoutErr, hpc, herr, sink,
         wdeadline, aborted, result>>

\* the second request before it enters the middleware
OtherIdle ==
    [pc |-> "idle", deadline |-> 0, ctxErr |-> "none", cb |-> "unregistered",
     onceDone |-> FALSE, timeoutErr |-> NoErr, herr |-> "unset", sink |-> <<>>,
     aborted |-> FALSE, result |-> "unset"]

parent == <<parentErr, endedByParent>>

env == <<duration, deadlineOK>>

hist == <<retTime, ctxErrAtRet, wonAtRet>>

\* the state of a request on entry, whatever the configuration
Start ==
    /\ now = 0
    /\ deadlineOK \in BOOLEAN
    /\ pc = "idle"
    /\ timer = "unset"
    /\ ctxErr = "none"
    /\ reqCtx = "parent"
    /\ cb = "unregistered"
    /\ onceDone = FALSE
    /\ timeoutErr = NoErr
    /\ hpc = "idle"
    /\ herr = "unset"
    /\ sink = <<>>
    /\ wdeadline = FALSE
    /\ aborted = FALSE
    /\ result = "unset"
    /\ retTime = -1
    /\ ctxErrAtRet = "none"
    /\ wonAtRet = FALSE
    /\ lateFire = FALSE
    /\ entries = 0
    /\ probed = "none"
    /\ writeRes = "unset"
    /\ parentErr = "none"
    /\ endedByParent = FALSE
    /\ refires = 0
    /\ other = OtherIdle

Init ==
    /\ duration \in Durations
    /\ Start

\* The context becomes done: a registered AfterFunc callback gets its goroutine.
Fire(c) == IF c = "registered" THEN "scheduled" ELSE c

\* a WithTimeout that arms a timer whatever the duration
WithTimeout_AlwaysArm ==
    /\ pc = "idle"
    /\ pc' = "install"
    /\ timer' = "armed"
    /\ ctxErr' = ctxErr
    /\ UNCHANGED <<now, env, other, reqCtx, cb, onceDone, timeoutErr, hpc, herr, sink,
                   wdeadline, aborted, result, hist, lateFire,
                   parent, refires, entries, probed, writeRes>>

\* line 30: ctx, cancel := context.WithTimeout(c.Request.Context(), cfg.Duration)
WithTimeout ==
    /\ pc = "idle"
    /\ pc' = "install"
    /\ IF duration > 0
          THEN timer' = "armed" /\ ctxErr' = ctxErr
          ELSE timer' = "unset" /\ ctxErr' = "DeadlineExceeded"
    /\ UNCHANGED <<now, env, other, reqCtx, cb, onceDone, timeoutErr, hpc, herr, sink,
                   wdeadline, aborted, result, hist, lateFire,
                   parent, refires, entries, probed, writeRes>>

\* line 34: c.Request = c.Request.WithContext(ctx)
WithContext ==
    /\ pc = "install"
    /\ pc' = "register"
    /\ reqCtx' = "child"
    /\ UNCHANGED <<now, env, other, timer, ctxErr, cb, onceDone, timeoutErr, hpc, herr,
                   sink, wdeadline, aborted, result, hist, lateFire,
                   parent, refires, entries, probed, writeRes>>

\* line 41: context.AfterFunc(ctx, func() {...}); a done ctx starts f at once
AfterFunc ==
    /\ pc = "register"
    /\ pc' = "next"
    /\ cb' = IF ctxErr = "none" THEN "registered" ELSE "scheduled"
    /\ UNCHANGED <<now, env, other, timer, ctxErr, reqCtx, onceDone, timeoutErr, hpc,
                   herr, sink, wdeadline, aborted, result, hist, lateFire,
                   parent, refires, entries, probed, writeRes>>

\* the runtime timer of the derived context fires at the deadline
TimerFire ==
    /\ timer = "armed"
    /\ now >= duration
    /\ timer' = "fired"
    /\ ctxErr' = "DeadlineExceeded"
    /\ cb' = Fire(cb)
    /\ UNCHANGED <<now, env, other, pc, reqCtx, onceDone, timeoutErr, hpc, herr, sink,
                   wdeadline, aborted, result, hist, lateFire,
                   parent, refires, entries, probed, writeRes>>

\* time passes while the request is in flight; an armed timer fires on time
Tick ==
    /\ pc \notin {"idle", "done"}
    /\ now < MaxTime
    /\ ~(timer = "armed" /\ now >= duration)
    /\ now' = now + 1
    /\ UNCHANGED <<env, other, pc, timer, ctxErr, reqCtx, cb, onceDone, timeoutErr,
                   hpc, herr, sink, wdeadline, aborted, result, hist, lateFire,
                   parent, refires, entries, probed, writeRes>>

\* c.Next() called before the callback is registered (lines 41 and 53 swapped)
NextCall_Early ==
    /\ pc \in {"register", "next"}
    /\ hpc = "idle"
    /\ hpc' = "running"
    /\ UNCHANGED <<now, env, other, pc, timer, ctxErr, reqCtx, cb, onceDone,
                   timeoutErr, herr, sink, wdeadline, aborted, result, hist,
                   lateFire,
                   parent, refires, entries, probed, writeRes>>

\* line 53: c.Next() enters the wrapped handler
NextCall ==
    /\ pc = "next"
    /\ hpc = "idle"
    /\ hpc' = "running"
    /\ UNCHANGED <<now, env, other, pc, timer, ctxErr, reqCtx, cb, onceDone,
                   timeoutErr, herr, sink, wdeadline, aborted, result, hist,
                   lateFire,
                   parent, refires, entries, probed, writeRes>>

\* the handler starts writing its own response to c.Writer
HandlerWriteBegin ==
    /\ hpc = "running"
    /\ \A i \in 1..Len(sink) : sink[i].by # "handler"
    /\ hpc' = "writing"
    /\ sink' = Append(sink, [by |-> "handler", status |-> 200,
                             body |-> "handler body", ctx |-> ctxErr])
    /\ UNCHANGED <<now, env, other, pc, timer, ctxErr, reqCtx, cb, onceDone,
                   timeoutErr, herr, wdeadline, aborted, result, hist, lateFire,
                   parent, refires, entries, probed, writeRes>>

\* the handler's write returns
HandlerWriteEnd ==
    /\ hpc = "writing"
    /\ hpc' = "running"
    /\ UNCHANGED <<now, env, other, pc, timer, ctxErr, reqCtx, cb, onceDone,
                   timeoutErr, herr, sink, wdeadline, aborted, result, hist,
                   lateFire,
                   parent, refires, entries, probed, writeRes>>

\* line 53: err := c.Next() returns the handler's result
NextReturn ==
    /\ pc = "next"
    /\ hpc = "running"
    /\ \E e \in HandlerErrors : herr' = e
    /\ hpc' = "returned"
    /\ pc' = "cancel"
    /\ retTime' = now
    /\ ctxErrAtRet' = ctxErr
    /\ wonAtRet' = onceDone
    /\ UNCHANGED <<now, env, other, timer, ctxErr, reqCtx, cb, onceDone, timeoutErr,
                   sink, wdeadline, aborted, result, lateFire,
                   parent, refires, entries, probed, writeRes>>

\* a cancel() that is not idempotent: every call starts the callback again
CancelCtx_Refires(nextpc) ==
    /\ pc' = nextpc
    /\ ctxErr' = IF ctxErr = "none" THEN "Canceled" ELSE ctxErr
    /\ timer' = IF ctxErr = "none" THEN "stopped" ELSE timer
    /\ cb' = IF cb \in {"registered", "finished"} THEN "scheduled" ELSE cb
    /\ UNCHANGED <<now, env, other, reqCtx, onceDone, timeoutErr, hpc, herr, sink,
                   wdeadline, aborted, result, hist, lateFire,
                   parent, refires, entries, probed, writeRes>>

\* cancel(): first call on a live context ends it with Canceled and stops the
\* timer; the context being done, a registered AfterFunc callback is started
CancelCtx(nextpc) ==
    /\ pc' = nextpc
    /\ IF ctxErr = "none"
          THEN /\ ctxErr' = "Canceled"
               /\ timer' = "stopped"
               /\ cb' = Fire(cb)
          ELSE UNCHANGED <<ctxErr, timer, cb>>
    /\ UNCHANGED <<now, env, other, reqCtx, onceDone, timeoutErr, hpc, herr, sink,
                   wdeadline, aborted, result, hist, lateFire,
                   parent, refires, entries, probed, writeRes>>

\* line 56: cancel()
Cancel ==
    /\ pc = "cancel"
    /\ CancelCtx("reconcile")

\* lines 59-63: if timeoutErr != nil { return timeoutErr }; return err
Reconcile ==
    /\ pc = "reconcile"
    /\ result' = IF timeoutErr # NoErr THEN timeoutErr ELSE herr
    /\ pc' = "deferred"
    /\ UNCHANGED <<now, env, other, timer, ctxErr, reqCtx, cb, onceDone, timeoutErr,
                   hpc, herr, sink, wdeadline, aborted, hist, lateFire,
                   parent, refires, entries, probed, writeRes>>

\* line 31: defer cancel(), run as the adapter returns
DeferredCancel ==
    /\ pc = "deferred"
    /\ CancelCtx("done")

\* once.Do without its done check: the body runs on every call
OnceDo_NoGuard ==
    /\ cb = "scheduled"
    /\ cb' = "probe"
    /\ onceDone' = TRUE
    /\ entries' = entries + 1
    /\ lateFire' = (hpc = "returned")
    /\ UNCHANGED <<now, env, other, pc, timer, ctxErr, reqCtx, timeoutErr, hpc, herr,
                   sink, wdeadline, aborted, result, hist,
                   parent, refires, probed, writeRes>>

\* line 42: the callback goroutine runs once.Do(...)
OnceDo ==
    /\ cb = "scheduled"
    /\ IF onceDone
          THEN cb' = "finished" /\ onceDone' = onceDone
          ELSE cb' = "probe" /\ onceDone' = TRUE
    /\ entries' = IF onceDone THEN entries ELSE entries + 1
    /\ lateFire' = (hpc = "returned")
    /\ UNCHANGED <<now, env, other, pc, timer, ctxErr, reqCtx, timeoutErr, hpc, herr,
                   sink, wdeadline, aborted, result, hist,
                   parent, refires, probed, writeRes>>

\* lines 67-71: rc.SetWriteDeadline(time.Now().Add(0)) != nil
isHeaderWritten == ~deadlineOK

\* the test of line 45 without its negation
Probe_Inverted ==
    /\ cb = "probe"
    /\ wdeadline' = (wdeadline \/ deadlineOK)
    /\ cb' = IF isHeaderWritten THEN "string" ELSE "finished"
    /\ probed' = IF isHeaderWritten THEN "started" ELSE "not started"
    /\ UNCHANGED <<now, env, other, pc, timer, ctxErr, reqCtx, onceDone, timeoutErr,
                   hpc, herr, sink, aborted, result, hist, lateFire,
                   parent, refires, entries, writeRes>>

\* lines 44-45: rc := http.NewResponseController(c.Writer); if !isHeaderWritten(rc)
Probe ==
    /\ cb = "probe"
    /\ wdeadline' = (wdeadline \/ deadlineOK)
    /\ cb' = IF ~isHeaderWritten THEN "string" ELSE "finished"
    /\ probed' = IF isHeaderWritten THEN "started" ELSE "not started"
    /\ UNCHANGED <<now, env, other, pc, timer, ctxErr, reqCtx, onceDone, timeoutErr,
                   hpc, herr, sink, aborted, result, hist, lateFire,
                   parent, refires, entries, writeRes>>

\* line 46: c.String(cfg.Code, cfg.Message) starts writing to c.Writer
StringBegin ==
    /\ cb = "string"
    /\ cb' = "writing"
    /\ sink' = Append(sink, [by |-> "timeout", status |-> Code,
                             body |-> Message, ctx |-> ctxErr])
    /\ UNCHANGED <<now, env, other, pc, timer, ctxErr, reqCtx, onceDone, timeoutErr,
                   hpc, herr, wdeadline, aborted, result, hist, lateFire,
                   parent, refires, entries, probed, writeRes>>

\* line 46: c.String returns and its result is stored: timeoutErr = ...
StringEnd ==
    /\ cb = "writing"
    /\ \E e \in WriteErrors : timeoutErr' = e /\ writeRes' = e
    /\ cb' = "abort"
    /\ UNCHANGED <<now, env, other, pc, timer, ctxErr, reqCtx, onceDone, hpc, herr,
                   sink, wdeadline, aborted, result, hist, lateFire,
                   parent, refires, entries, probed>>

\* line 47: c.Abort()
Abort ==
    /\ cb = "abort"
    /\ aborted' = TRUE
    /\ cb' = "finished"
    /\ UNCHANGED <<now, env, other, pc, timer, ctxErr, reqCtx, onceDone, timeoutErr,
                   hpc, herr, sink, wdeadline, result, hist, lateFire,
                   parent, refires, entries, probed, writeRes>>

Next ==
    \/ WithTimeout
    \/ WithContext
    \/ AfterFunc
    \/ TimerFire
    \/ Tick
    \/ NextCall
    \/ HandlerWriteBegin
    \/ HandlerWriteEnd
    \/ NextReturn
    \/ Cancel
    \/ Reconcile
    \/ DeferredCancel
    \/ OnceDo
    \/ Probe
    \/ StringBegin
    \/ StringEnd
    \/ Abort

Spec == Init /\ [][Next]_vars

\* the goroutine started by context.AfterFunc is scheduled by the Go runtime
\* and runs to its end; nothing is assumed about the handler or the adapter
CallbackFairness ==
    /\ WF_vars(OnceDo)
    /\ WF_vars(Probe)
    /\ WF_vars(StringBegin)
    /\ WF_vars(StringEnd)
    /\ WF_vars(Abort)

FairSpec == Spec /\ CallbackFairness

InitBoundary ==
    /\ duration \in BoundaryDurations
    /\ Start

SpecBoundary == InitBoundary /\ [][Next]_vars

\* line 30: the request's ambient context, parent of ctx, is cancelled while
\* the request is in flight (client disconnect); a live ctx is cancelled with it
ParentCancel ==
    /\ pc \notin {"idle", "done"}
    /\ parentErr = "none"
    /\ parentErr' = "Canceled"
    /\ IF ctxErr = "none"
          THEN /\ ctxErr' = "Canceled"
               /\ timer' = "stopped"
               /\ cb' = Fire(cb)
               /\ endedByParent' = (hpc \in {"running", "writing"})
          ELSE UNCHANGED <<ctxErr, timer, cb, endedByParent>>
    /\ UNCHANGED <<now, env, other, pc, reqCtx, onceDone, timeoutErr, hpc, herr, sink,
                   wdeadline, aborted, result, hist, lateFire, refires,
                   entries, probed, writeRes>>

NextParent ==
    \/ Next
    \/ ParentCancel

SpecParent == Init /\ [][NextParent]_vars

\* ---- a second request handled concurrently by the same middleware ----
\* Each call of the function of line 29 has its own c, ctx, cancel, once and
\* timeoutErr; the second request keeps its own in the record "other".

mine == <<now, env, own, hist, lateFire, parent, refires, entries, probed,
          writeRes>>

\* lines 30-41 for the second request: scope, installed context, registration;
\* it arrives while the first request is inside c.Next()
OtherEnter ==
    /\ other.pc = "idle"
    /\ pc = "next"
    /\ other' = [other EXCEPT !.pc = "next",
                              !.deadline = now + duration,
                              !.cb = "registered"]
    /\ UNCHANGED mine

\* the timer of the second request's context fires
OtherTimerFire ==
    /\ other.pc # "idle"
    /\ other.ctxErr = "none"
    /\ now >= other.deadline
    /\ other' = [other EXCEPT !.ctxErr = "DeadlineExceeded",
                              !.cb = Fire(other.cb)]
    /\ UNCHANGED mine

\* line 53: the second request's handler writes its response
OtherHandlerWrite ==
    /\ other.pc = "next"
    /\ \A i \in 1..Len(other.sink) : other.sink[i] # "handler"
    /\ other' = [other EXCEPT !.sink = Append(other.sink, "handler")]
    /\ UNCHANGED mine

\* line 53: err := c.Next() returns for the second request
OtherNextReturn ==
    /\ other.pc = "next"
    /\ \E e \in HandlerErrors :
          other' = [other EXCEPT !.pc = "cancel", !.herr = e]
    /\ UNCHANGED mine

\* line 56: cancel() of the second request
OtherCancel ==
    /\ other.pc = "cancel"
    /\ other' = IF other.ctxErr = "none"
                   THEN [other EXCEPT !.pc = "reconcile",
                                      !.ctxErr = "Canceled",
                                      !.cb = Fire(other.cb)]
                   ELSE [other EXCEPT !.pc = "reconcile"]
    /\ UNCHANGED mine

\* lines 59-63 and 31: the second request's adapter returns
OtherReconcile ==
    /\ other.pc = "reconcile"
    /\ other' = [other EXCEPT
                   !.pc = "done",
                   !.result = IF other.timeoutErr # NoErr
                                 THEN other.timeoutErr ELSE other.herr]
    /\ UNCHANGED mine

\* a guard declared outside the function of line 29: one sync.Once for all requests
OtherOnceDo_SharedOnce ==
    /\ other.cb = "scheduled"
    /\ other' = [other EXCEPT !.cb = IF onceDone THEN "finished" ELSE "probe",
                              !.onceDone = TRUE]
    /\ onceDone' = TRUE
    /\ UNCHANGED <<now, env, pc, timer, ctxErr, reqCtx, cb, timeoutErr, hpc,
                   herr, sink, wdeadline, aborted, result, hist, lateFire,
                   parent, refires, entries, probed, writeRes>>

\* line 42: once.Do of the second request's callback
OtherOnceDo ==
    /\ other.cb = "scheduled"
    /\ other' = [other EXCEPT
                   !.cb = IF other.onceDone THEN "finished" ELSE "probe",
                   !.onceDone = TRUE]
    /\ UNCHANGED mine

\* lines 44-45: the probe of the second request's callback
OtherProbe ==
    /\ other.cb = "probe"
    /\ other' = [other EXCEPT
                   !.cb = IF ~isHeaderWritten THEN "string" ELSE "finished"]
    /\ UNCHANGED mine

\* line 46: timeoutErr = c.String(cfg.Code, cfg.Message) of the second request
OtherString ==
    /\ other.cb = "string"
    /\ \E e \in WriteErrors :
          other' = [other EXCEPT !.cb = "abort",
                                 !.sink = Append(other.sink, "timeout"),
                                 !.timeoutErr = e]
    /\ UNCHANGED mine

\* line 47: c.Abort() of the second request
OtherAbort ==
    /\ other.cb = "abort"
    /\ other' = [other EXCEPT !.cb = "finished", !.aborted = TRUE]
    /\ UNCHANGED mine

NextMulti ==
    \/ Next
    \/ OtherEnter
    \/ OtherTimerFire
    \/ OtherHandlerWrite
    \/ OtherNextReturn
    \/ OtherCancel
    \/ OtherReconcile
    \/ OtherOnceDo
    \/ OtherProbe
    \/ OtherString
    \/ OtherAbort

\* both requests run under the shortest configured duration
InitMulti ==
    /\ duration = 1
    /\ Start

SpecMulti == InitMulti /\ [][NextMulti]_vars

\* lines 41-50 invoked again: the closure passed to context.AfterFunc is called
\* once more after an earlier invocation has returned (a duplicate expiry)
Refire ==
    /\ cb = "finished"
    /\ refires < MaxRefire
    /\ cb' = "scheduled"
    /\ refires' = refires + 1
    /\ UNCHANGED <<now, env, other, pc, timer, ctxErr, reqCtx, onceDone, timeoutErr,
                   hpc, herr, sink, wdeadline, aborted, result, hist, lateFire,
                   parent, entries, probed, writeRes>>

NextRefire ==
    \/ Next
    \/ Refire

SpecRefire == Init /\ [][NextRefire]_vars

TypeOK ==
    /\ now \in 0..MaxTime
    /\ pc \in {"idle", "install", "register", "next", "cancel", "reconcile",
               "deferred", "done"}
    /\ timer \in {"unset", "armed", "fired", "stopped"}
    /\ ctxErr \in {"none", "DeadlineExceeded", "Canceled"}
    /\ cb \in {"unregistered", "registered", "scheduled", "probe", "string",
               "writing", "abort", "finished"}
    /\ hpc \in {"idle", "running", "writing", "returned"}
    /\ result \in {"unset", "nil", "HandlerError", "TimeoutWriteError"}
    /\ Len(sink) <= 2
    /\ entries \in 0..1
    /\ probed \in {"none", "started", "not started"}
    /\ writeRes \in {"unset"} \cup WriteErrors
    /\ parentErr \in {"none", "Canceled"}

\* ---- derived state ----

HasStart(who) == \E i \in 1..Len(sink) : sink[i].by = who

CbInGuard == cb \in {"probe", "string", "writing", "abort"}

CbBeforeStore == cb \in {"string", "writing"} \/ (cb = "probe" /\ ~isHeaderWritten)

CbLive == cb = "scheduled" \/ CbInGuard

Returned == retTime >= 0

ReturnedBeforeDeadline == Returned /\ retTime < duration /\ ctxErrAtRet = "none"

DeadlineDuringHandler == Returned /\ ctxErrAtRet = "DeadlineExceeded"

\* ---- claims ----

\* C1: the response sink receives at most one start of response per request:
\* never both a handler-originated and a timeout-originated start, and no
\* write begins after a response has already started.
C1_SingleResponseStart ==
    /\ ~(HasStart("handler") /\ HasStart("timeout"))
    /\ Len(sink) <= 1

\* C2: for duration > 0, when the handler returns before the deadline the
\* timeout path never calls the sink (c.String is never executed).
C2_EarlyReturnNoTimeoutWrite ==
    (duration > 0 /\ ReturnedBeforeDeadline) => ~HasStart("timeout")

\* C3: for duration > 0, when the deadline elapses while the handler is still
\* running, the client receives exactly one response, the configured
\* status/message, and no handler write reaches the sink after the deadline.
C3_TimeoutResponseOnly ==
    (duration > 0 /\ DeadlineDuringHandler /\ pc = "done" /\ cb = "finished")
        => /\ Len(sink) = 1
           /\ sink[1].by = "timeout"
           /\ sink[1].status = Code
           /\ sink[1].body = Message

\* C4: when the expiry path had won the guard by the time the handler
\* returned, the adapter returns the captured timeout outcome and never
\* surfaces the handler's own HandlerError.
C4_TimeoutOutcomeReturned ==
    (pc = "done" /\ wonAtRet /\ cb = "finished")
        => (result = timeoutErr /\ result # "HandlerError")

\* C5: cancellation suppresses expiry: when the scope was ended by cancel(),
\* the body of the callback registered with context.AfterFunc never runs.
C5_CancelSuppressesCallback ==
    ctxErr = "Canceled" => (cb \in {"unregistered", "registered", "scheduled"} /\ ~onceDone)

\* C6: once the adapter has returned, the timer is stopped and the expiry
\* callback is neither pending nor running.
C6_NoCallbackOutlivesRequest ==
    pc = "done" => (timer # "armed" /\ ~CbLive)

\* C7: the handler and the expiry callback are never both in the middle of
\* writing to the response sink.
C7_NoConcurrentSinkWrites ==
    ~(hpc = "writing" /\ cb = "writing")

\* C8: if the handler returns before the deadline elapses, the adapter
\* returns exactly the handler's own result, never a timeout-write error.
C8_EarlyReturnHandlerResult ==
    (ReturnedBeforeDeadline /\ pc = "done") => result = herr

\* C9: the adapter never reads timeoutErr while the expiry callback has
\* entered the guard but has not yet stored its outcome.
C9_NoReadBeforeStore ==
    [][(pc = "reconcile" /\ pc' = "deferred") => ~CbBeforeStore]_vars

\* C10: a callback that fires after the handler has completed is inert: it
\* finds the guard taken and performs no probe, no sink write and no Abort.
C10_LateCallbackInert ==
    lateFire => ~CbInGuard
C12_ProbeSeesWrite ==
    [][(cb = "probe" /\ cb' # cb /\ Len(sink) > 0) => probed' = "started"]_vars
\* C13: cancel is idempotent: the second invocation, the deferred one, changes
\* no state of the scope, the guard, the callback or the response, so it
\* enables no additional run of the expiry callback.
C13_SecondCancelNoEffect ==
    [][(pc = "deferred" /\ pc' = "done")
          => UNCHANGED <<ctxErr, timer, cb, onceDone, entries, timeoutErr,
                         sink, aborted, result>>]_vars

C13_Witness == pc = "done" /\ ctxErr = "Canceled" /\ timer = "stopped"
\* C14: inside the guard the expiry path writes the timeout response and
\* aborts the pipeline iff the probe reported that output had not started;
\* after a probe that reported started there is no timeout write, no Abort and
\* no stored outcome; the write precedes Abort, and the stored outcome is the
\* result of the write.
C14_GuardedBody ==
    /\ probed = "started"
          => (~HasStart("timeout") /\ ~aborted /\ timeoutErr = NoErr
              /\ writeRes = "unset")
    /\ (probed = "not started" /\ cb = "finished")
          => (HasStart("timeout") /\ aborted)
    /\ HasStart("timeout") => probed = "not started"
    /\ aborted => (HasStart("timeout") /\ writeRes # "unset")
    /\ writeRes # "unset" => timeoutErr = writeRes
    /\ writeRes = "unset" => timeoutErr = NoErr

C14_Witness ==
    /\ cb = "finished"
    /\ probed = "not started"
    /\ aborted
    /\ timeoutErr = "TimeoutWriteError"
\* C15: the adapter goes Idle -> Running -> Done in that order: the derived
\* scope is installed and the expiry callback registered before c.Next() is
\* entered, c.Next() is entered once, and the adapter passes line 53 and
\* returns only after c.Next() has returned, also when the timeout path won.
C15_AdapterOrder ==
    /\ [](hpc # "idle" => (reqCtx = "child" /\ cb # "unregistered"
                              /\ pc \notin {"idle", "install", "register"}))
    /\ [](pc \in {"cancel", "reconcile", "deferred", "done"}
              => hpc = "returned")
    /\ [](result # "unset" => hpc = "returned")
    /\ [][hpc # "idle" => hpc' # "idle"]_vars
    /\ [][hpc = "returned" => hpc' = "returned"]_vars

C15_Witness == pc = "done" /\ wonAtRet /\ hpc = "returned" /\ HasStart("timeout")
\* C16: under weak fairness of the timer callback, if the deadline elapses
\* while the handler is still running and no output has started, the timeout
\* response is eventually written to the sink, even if the handler never
\* returns.
C16_TimeoutEventuallyWritten ==
    (ctxErr = "DeadlineExceeded" /\ hpc = "running" /\ sink = <<>>)
        ~> HasStart("timeout")
\* C18: the timeout response is written only when the configured duration has
\* elapsed: when the parent scope is cancelled before that, while the handler
\* is still running, the expiry callback does not write the timeout response.
C18_ParentCancelNoTimeoutWrite ==
    (endedByParent /\ now < duration) => ~HasStart("timeout")
C17_RequestIsolation ==
    /\ [][other' # other => UNCHANGED own]_vars
    /\ [][own' # own => other' = other]_vars
    /\ [](onceDone => entries = 1)
    /\ [](HasStart("timeout") => onceDone)

C17_Witness ==
    /\ pc = "done"
    /\ other.pc = "done"
    /\ other.ctxErr = "DeadlineExceeded"
    /\ other.sink = <<"timeout">>
    /\ other.result = "TimeoutWriteError"
    /\ ctxErr = "Canceled"
    /\ ~onceDone
    /\ sink = <<>>
    /\ result = "nil"
====
